---- MODULE Spec2Model ----
(***************************************************************************)
(* gpltoact: conversion between Adobe ACT palettes (binary) and GIMP GPL   *)
(* palettes (text).  Models the codec functions of src/GUI.py and          *)
(* src/main.py and the two front ends that call them.                      *)
(*                                                                         *)
(* A binary file is a sequence of bytes (0..255).  A text is a sequence of *)
(* one-character strings.  A colour is a triple <<r, g, b>>.               *)
(***************************************************************************)
EXTENDS Integers, Sequences, FiniteSets, TLC

VARIABLES
    pc,        \* position of the running conversion
    colors,    \* the palette handed to a writer
    name,      \* palette name handed to return_gimp_palette
    columns,   \* column hint handed to return_gimp_palette
    text,      \* GPL text on disk (sequence of characters)
    data,      \* ACT file on disk (sequence of bytes)
    lines,     \* the lines a given GPL text was made of, token by token
    result,    \* what the reader returned: [status, value]
    text2,     \* GPL text written from the palette that was read back
    env,       \* what a front end was started with: arguments, files, faults
    disk,      \* the output file of a front end: [exists, bytes]
    calls,     \* the codec functions a front end has called, in order
    outcome    \* how a front end ended: exit code, or the dialog it showed

vars == <<pc, colors, name, columns, text, data, lines, result, text2,
          env, disk, calls, outcome>>

codec == <<colors, name, columns, text, data, lines, result, text2>>
front == <<env, disk, calls, outcome>>

----------------------------------------------------------------------------
(* Bounds of the model and constants of the program *)

MaxHead == 1        \* free colours at the head of an input palette
MaxFill == 300      \* repeated colours after the head of an input palette
MaxFileSize == 775  \* size of an ACT file given to the reader
MaxSeed == 1        \* byte patterns of an ACT file given to the reader
MaxPal == 2         \* colours of a palette given to the GPL writer
MaxTokens == 4      \* tokens on a line of a one-line GPL text
MaxLines == 3       \* lines of a GPL text made of sample lines

ACT_SLOTS == 256    \* colors[:256], range(256 - len(colors))
CS2_SIZE == 772     \* filesize == 772
CS2_OFFSET == 768   \* file.seek(768, 0)

Min(a, b) == IF a < b THEN a ELSE b
Max(a, b) == IF a > b THEN a ELSE b

NoFile == [exists |-> FALSE, bytes |-> <<>>]
FileOf(b) == [exists |-> TRUE, bytes |-> b]

NoEnv == [frontend |-> "none", argc |-> 0, hasInput |-> FALSE, exists |-> FALSE,
          readFails |-> FALSE, hasOutput |-> FALSE, writeFault |-> "none",
          disk0 |-> NoFile]

NoResult == [status |-> "none", value |-> <<>>]
Raised == [status |-> "error", value |-> <<>>]
Returned(v) == [status |-> "ok", value |-> v]

----------------------------------------------------------------------------
(* struct.pack / struct.unpack and Python built-ins *)

\* colors[:n]
PySlice(s, n) == SubSeq(s, 1, Min(Len(s), n))

\* len(range(n)): a negative n gives an empty range
PyRangeLen(n) == Max(0, n)

\* pack('3B', r, g, b)
Pack3B(c) == <<c[1], c[2], c[3]>>

\* pack('>H', n): most significant byte first
PackU16BE(n) == <<(n \div 256) % 256, n % 256>>

\* (mutant) the count field read least significant byte first
UnpackU16BE_LittleEndian(b) == b[2] * 256 + b[1]

\* struct.unpack('>H', b)[0]
UnpackU16BE(b) == b[1] * 256 + b[2]

\* file.read(n) with the file position at pos: at most n bytes, fewer at the end
FileRead(bytes, pos, n) ==
    IF pos >= Len(bytes) THEN <<>>
    ELSE SubSeq(bytes, pos + 1, Min(pos + n, Len(bytes)))

----------------------------------------------------------------------------
(* create_act_file *)

\* for r, g, b in colors[:256]: f.write(pack('3B', r, g, b))
ActColorBytes(cs) ==
    LET kept == PySlice(cs, ACT_SLOTS)
    IN  [k \in 1..(3 * Len(kept)) |-> Pack3B(kept[((k - 1) \div 3) + 1])[((k - 1) % 3) + 1]]

\* (mutant) one padding slot too few
ActPadBytes_OneShort(cs) ==
    [k \in 1..(3 * PyRangeLen(ACT_SLOTS - 1 - Len(cs))) |-> 0]

\* for _ in range(256 - len(colors)): f.write(pack('3B', 0, 0, 0))
ActPadBytes(cs) ==
    [k \in 1..(3 * PyRangeLen(ACT_SLOTS - Len(cs))) |-> 0]

\* (mutant) the count field also written for exactly 256 colours
ActCountBytes_Inclusive(cs) ==
    IF Len(cs) > 0 /\ Len(cs) <= ACT_SLOTS THEN PackU16BE(Len(cs)) ELSE <<>>

\* if len(colors) > 0 and len(colors) < 256: f.write(pack('>H', len(colors)))
ActCountBytes(cs) ==
    IF Len(cs) > 0 /\ Len(cs) < ACT_SLOTS THEN PackU16BE(Len(cs)) ELSE <<>>

create_act_file(cs) == ActColorBytes(cs) \o ActPadBytes(cs) \o ActCountBytes(cs)

----------------------------------------------------------------------------
(* parse_adobe_act *)

\* the colour count: the CS2 count field of a 772-byte file, else filesize // 3
ActNbColors(bytes) ==
    IF Len(bytes) = CS2_SIZE
    THEN UnpackU16BE(FileRead(bytes, CS2_OFFSET, 2))
    ELSE Len(bytes) \div 3

\* (mutant) a short read ends the list instead of raising
parse_adobe_act_Lenient(bytes) ==
    LET nbcolors == ActNbColors(bytes)
        full == Min(nbcolors, Len(bytes) \div 3)
    IN  Returned([i \in 1..full |-> FileRead(bytes, 3 * (i - 1), 3)])

\* [struct.unpack('3B', file.read(3)) for i in range(nbcolors)]:
\* unpack raises struct.error on a read shorter than 3 bytes
parse_adobe_act(bytes) ==
    LET nbcolors == ActNbColors(bytes)
        chunk(i) == FileRead(bytes, 3 * (i - 1), 3)
    IN  IF \E i \in 1..nbcolors : Len(chunk(i)) # 3
        THEN Raised
        ELSE Returned([i \in 1..nbcolors |-> chunk(i)])

----------------------------------------------------------------------------
(* Text: str methods, re.split, int() and str() *)

\* the characters of the literals the program writes
GIMP_PALETTE == <<"G", "I", "M", "P", " ", "P", "a", "l", "e", "t", "t", "e">>
NAME_LABEL == <<"N", "a", "m", "e", ":", " ">>
COLUMNS_LABEL == <<"C", "o", "l", "u", "m", "n", "s", ":", " ">>
UNTITLED == <<"U", "n", "t", "i", "t", "l", "e", "d">>
NL == <<"\n">>

DecimalDigits == <<"0", "1", "2", "3", "4", "5", "6", "7", "8", "9">>

\* a character for which str.isdigit() is true and which int() rejects
\* (U+00B2, superscript two), written as a symbol of its own
SUP2 == "<sup2>"

IsDecimalChar(c) == \E d \in 1..10 : DecimalDigits[d] = c

\* the value of a decimal digit character
DigitValue(c) == (CHOOSE d \in 1..10 : DecimalDigits[d] = c) - 1

\* str.isspace() of one character
IsSpace(c) == c \in {" ", "\t", "\n"}

\* str(n) of an int, as '{0}'.format(n) renders it
RECURSIVE NatToStr(_)
NatToStr(n) ==
    IF n < 10 THEN <<DecimalDigits[n + 1]>>
    ELSE Append(NatToStr(n \div 10), DecimalDigits[(n % 10) + 1])

IntToStr(n) == IF n < 0 THEN <<"-">> \o NatToStr(0 - n) ELSE NatToStr(n)

\* x.isdigit(): non-empty and every character a digit
StrIsDigit(tok) ==
    /\ tok # <<>>
    /\ \A i \in 1..Len(tok) : IsDecimalChar(tok[i]) \/ tok[i] = SUP2

\* int(x) succeeds on a token that passed isdigit() iff it is all decimal
IntRaises(tok) == \E i \in 1..Len(tok) : ~IsDecimalChar(tok[i])

\* int(x) of a decimal token
RECURSIVE StrToInt(_)
StrToInt(tok) ==
    IF tok = <<>> THEN 0
    ELSE 10 * StrToInt(SubSeq(tok, 1, Len(tok) - 1)) + DigitValue(tok[Len(tok)])

RECURSIVE LStrip(_)
LStrip(s) == IF s = <<>> \/ ~IsSpace(Head(s)) THEN s ELSE LStrip(Tail(s))

RECURSIVE RStrip(_)
RStrip(s) ==
    IF s = <<>> \/ ~IsSpace(s[Len(s)]) THEN s ELSE RStrip(SubSeq(s, 1, Len(s) - 1))

\* line.strip()
Strip(s) == RStrip(LStrip(s))

\* re.split(r'\s+', s): the pieces between maximal runs of whitespace
RECURSIVE ReSplitFrom(_, _, _)
ReSplitFrom(s, cur, inSep) ==
    IF s = <<>> THEN <<cur>>
    ELSE IF IsSpace(Head(s))
         THEN IF inSep THEN ReSplitFrom(Tail(s), cur, TRUE)
              ELSE <<cur>> \o ReSplitFrom(Tail(s), <<>>, TRUE)
         ELSE ReSplitFrom(Tail(s), Append(cur, Head(s)), FALSE)

ReSplit(s) == ReSplitFrom(s, <<>>, FALSE)

\* for line in f: the lines of a text file, each with its line ending
RECURSIVE FileLinesFrom(_, _)
FileLinesFrom(s, cur) ==
    IF s = <<>> THEN (IF cur = <<>> THEN <<>> ELSE <<cur>>)
    ELSE IF Head(s) = "\n"
         THEN <<Append(cur, "\n")>> \o FileLinesFrom(Tail(s), <<>>)
         ELSE FileLinesFrom(Tail(s), Append(cur, Head(s)))

FileLines(s) == FileLinesFrom(s, <<>>)

\* '\n'.join(parts) and, generally, sep.join(parts)
RECURSIVE Join(_, _)
Join(sep, parts) ==
    IF parts = <<>> THEN <<>>
    ELSE IF Len(parts) = 1 THEN parts[1]
    ELSE parts[1] \o sep \o Join(sep, Tail(parts))

----------------------------------------------------------------------------
(* return_gimp_palette *)

\* (mutant) a space instead of the tab before the label
GplColorLine_Space(c) ==
    IntToStr(c[1]) \o <<" ">> \o IntToStr(c[2]) \o <<" ">> \o IntToStr(c[3])
        \o <<" ">> \o UNTITLED

\* '{0} {1} {2}\tUntitled'.format(*color)
GplColorLine(c) ==
    IntToStr(c[1]) \o <<" ">> \o IntToStr(c[2]) \o <<" ">> \o IntToStr(c[3])
        \o <<"\t">> \o UNTITLED

\* 'GIMP Palette\nName: {name}\nColumns: {columns}\n#\n{colors}\n'.format(...)
return_gimp_palette(cs, nm, cols) ==
    GIMP_PALETTE \o NL
        \o NAME_LABEL \o nm \o NL
        \o COLUMNS_LABEL \o IntToStr(cols) \o NL
        \o <<"#">> \o NL
        \o Join(NL, [i \in 1..Len(cs) |-> GplColorLine(cs[i])]) \o NL

----------------------------------------------------------------------------
(* parse_gpl_file *)

\* (mutant) no upper limit
Clamp_NoUpper(x) == Max(0, x)

\* max(0, min(255, x))
Clamp(x) == Max(0, Min(255, x))

\* the body of the loop for one line: the colours it appends (none or one)
GplLineColors(rawline) ==
    LET line == Strip(rawline)
    IN  IF line = <<>> \/ Head(line) = "#" THEN <<>>
        ELSE LET parts == ReSplit(Strip(line))
                 digits == SelectSeq(parts, StrIsDigit)
             IN  IF \E i \in 1..Len(digits) : IntRaises(digits[i])
                 THEN <<>>     \* ValueError: except ... continue
                 ELSE LET nums == PySlice([i \in 1..Len(digits) |-> StrToInt(digits[i])], 3)
                      IN  IF Len(nums) >= 3
                          THEN <<<<Clamp(nums[1]), Clamp(nums[2]), Clamp(nums[3])>>>>
                          ELSE <<>>

RECURSIVE GplColorsOf(_)
GplColorsOf(ls) ==
    IF ls = <<>> THEN <<>>
    ELSE GplLineColors(Head(ls)) \o GplColorsOf(Tail(ls))

\* (mutant) a line that yields no colour ends the loop (break for continue)
RECURSIVE GplColorsUntilBad(_)
GplColorsUntilBad(ls) ==
    IF ls = <<>> \/ GplLineColors(Head(ls)) = <<>> THEN <<>>
    ELSE GplLineColors(Head(ls)) \o GplColorsUntilBad(Tail(ls))

parse_gpl_file_Break(txt) == GplColorsUntilBad(FileLines(txt))

parse_gpl_file(txt) == GplColorsOf(FileLines(txt))

----------------------------------------------------------------------------
(* Inputs *)

ColorSet == {<<0, 0, 0>>, <<1, 2, 3>>, <<255, 254, 128>>}

RECURSIVE SeqsUpTo(_, _)
SeqsUpTo(S, n) ==
    IF n = 0 THEN {<<>>}
    ELSE LET shorter == SeqsUpTo(S, n - 1)
         IN  shorter \cup {Append(s, x) : s \in {t \in shorter : Len(t) = n - 1}, x \in S}

\* a palette: a head of free colours, then n colours that start at one colour
\* and move by a step per entry (step 0: one colour repeated)
FillPatterns ==
    { [start |-> <<0, 0, 0>>, step |-> 0],
      [start |-> <<1, 2, 3>>, step |-> 1],
      [start |-> <<255, 254, 128>>, step |-> 0] }
Palette(head, fill, n) ==
    head \o [i \in 1..n |-> <<(fill.start[1] + fill.step * (i - 1)) % 256,
                              (fill.start[2] + 2 * fill.step * (i - 1)) % 256,
                              (fill.start[3] + 3 * fill.step * (i - 1)) % 256>>]

\* an ACT file of a given size: a byte pattern
PatternFile(size, seed) == [k \in 1..size |-> (seed + 7 * k) % 256]

\* a 772-byte ACT file with a given count field
CountHi == {0, 1, 255}
CountLo == {0, 1, 2, 10, 255}
CS2File(seed, hi, lo) ==
    [k \in 1..CS2_SIZE |->
        IF k = CS2_OFFSET + 1 THEN hi
        ELSE IF k = CS2_OFFSET + 2 THEN lo
        ELSE (seed + 7 * k) % 256]

\* a token of a given line: an integer as str() writes it, or a word
IntTok(n) == [isint |-> TRUE, value |-> n, chars |-> IntToStr(n)]
WordTok(w) == [isint |-> FALSE, value |-> 0, chars |-> w]

RichTokens ==
    {IntTok(0), IntTok(255), IntTok(300), IntTok(-10),
     WordTok(<<"x">>), WordTok(<<"#">>), WordTok(<<SUP2>>)}

\* the whitespace around the tokens of a line: before the first token, between
\* tokens (gap i takes seps[((i - 1) % Len(seps)) + 1]) and after the last
PlainWs == [lead |-> <<>>, seps |-> << <<" ">> >>, trail |-> <<>>]
MessyWs == [lead |-> <<" ", "\t">>, seps |-> << <<"\t">>, <<" ", " ">> >>, trail |-> <<" ">>]
LabelWs == [lead |-> <<>>, seps |-> << <<" ">>, <<" ">>, <<"\t">> >>, trail |-> <<>>]

GplLine(ws, toks) == [lead |-> ws.lead, toks |-> toks, seps |-> ws.seps, trail |-> ws.trail]

RichLines == {GplLine(ws, toks) : ws \in {PlainWs, MessyWs}, toks \in SeqsUpTo(RichTokens, MaxTokens)}

\* the header block of a GPL file and lines that may follow it
HeaderLines ==
    << GplLine(PlainWs, <<WordTok(<<"G", "I", "M", "P">>), WordTok(<<"P", "a", "l", "e", "t", "t", "e">>)>>),
       GplLine(PlainWs, <<WordTok(<<"N", "a", "m", "e", ":">>), WordTok(<<"T", "e", "s", "t">>)>>),
       GplLine(PlainWs, <<WordTok(<<"C", "o", "l", "u", "m", "n", "s", ":">>), IntTok(2)>>),
       GplLine(PlainWs, <<WordTok(<<"#">>)>>) >>

SampleLines ==
    { GplLine(LabelWs, <<IntTok(10), IntTok(20), IntTok(30), WordTok(UNTITLED)>>),
      GplLine(PlainWs, <<WordTok(<<"n", "o", "t", "a", "n", "u", "m", "b", "e", "r">>)>>),
      GplLine(PlainWs, <<IntTok(40), IntTok(50), IntTok(60)>>),
      GplLine(PlainWs, <<IntTok(300), IntTok(-10), IntTok(128)>>),
      GplLine(MessyWs, <<>>),
      GplLine(MessyWs, <<WordTok(<<"#">>), IntTok(1), IntTok(2), IntTok(3)>>),
      GplLine(PlainWs, <<WordTok(<<"N", "a", "m", "e", ":">>), IntTok(1), IntTok(2), IntTok(3)>>) }

\* the characters of a line
RECURSIVE RenderToks(_, _, _)
RenderToks(toks, seps, i) ==
    IF i > Len(toks) THEN <<>>
    ELSE (IF i = 1 THEN <<>> ELSE seps[((i - 2) % Len(seps)) + 1])
            \o toks[i].chars \o RenderToks(toks, seps, i + 1)

RenderLine(l) == l.lead \o RenderToks(l.toks, l.seps, 1) \o l.trail

\* the characters of a file of these lines, with or without a final newline
RenderFile(ls, finalNewline) ==
    Join(NL, [i \in 1..Len(ls) |-> RenderLine(ls[i])])
        \o (IF finalNewline THEN NL ELSE <<>>)

NameSet == {<<"T", "e", "s", "t">>, <<>>, <<"1", " ", "2", " ", "3">>}
ColumnSet == {0, 2, 16}

----------------------------------------------------------------------------
(* The ACT pipeline *)

Init ==
    /\ pc = "start"
    /\ colors = <<>>
    /\ name = <<>>
    /\ columns = 0
    /\ text = <<>>
    /\ data = <<>>
    /\ lines = <<>>
    /\ result = NoResult
    /\ text2 = <<>>
    /\ env = NoEnv
    /\ disk = NoFile
    /\ calls = <<>>
    /\ outcome = "running"

\* the caller holds a palette to write
ChoosePalette ==
    /\ pc = "start"
    /\ \E head \in SeqsUpTo(ColorSet, MaxHead), fill \in FillPatterns, n \in 0..MaxFill :
          colors' = Palette(head, fill, n)
    /\ pc' = "palette"
    /\ UNCHANGED <<name, columns, text, data, lines, result, text2>>
    /\ UNCHANGED front

\* create_act_file(colors, output_filename)
CreateActFile ==
    /\ pc = "palette"
    /\ data' = create_act_file(colors)
    /\ pc' = "act_written"
    /\ UNCHANGED <<colors, name, columns, text, lines, result, text2>>
    /\ UNCHANGED front

\* an ACT file from elsewhere is on disk
ChooseActFile ==
    /\ pc = "start"
    /\ \/ \E size \in 0..MaxFileSize, seed \in 0..MaxSeed :
             data' = PatternFile(size, seed)
       \/ \E seed \in 0..MaxSeed, hi \in CountHi, lo \in CountLo :
             data' = CS2File(seed, hi, lo)
    /\ pc' = "act_given"
    /\ UNCHANGED <<colors, name, columns, text, lines, result, text2>>
    /\ UNCHANGED front

\* parse_adobe_act(filename) on the file on disk
ParseAdobeAct ==
    /\ pc \in {"act_written", "act_given"}
    /\ result' = parse_adobe_act(data)
    /\ pc' = IF pc = "act_written" THEN "act_roundtrip" ELSE "act_read"
    /\ UNCHANGED <<colors, name, columns, text, data, lines, text2>>
    /\ UNCHANGED front

NextAct == ChoosePalette \/ CreateActFile \/ ChooseActFile \/ ParseAdobeAct

SpecAct == Init /\ [][NextAct]_vars

----------------------------------------------------------------------------
(* The GPL pipeline *)

\* the caller holds a palette, a name and a column hint to write
ChooseGplPalette ==
    /\ pc = "start"
    /\ colors' \in SeqsUpTo(ColorSet, MaxPal)
    /\ name' \in NameSet
    /\ columns' \in ColumnSet
    /\ pc' = "gpl_palette"
    /\ UNCHANGED <<text, data, lines, result, text2>>
    /\ UNCHANGED front

\* f.write(return_gimp_palette(colors, name, columns))
ReturnGimpPalette ==
    /\ pc = "gpl_palette"
    /\ text' = return_gimp_palette(colors, name, columns)
    /\ pc' = "gpl_written"
    /\ UNCHANGED <<colors, name, columns, data, lines, result, text2>>
    /\ UNCHANGED front

\* a GPL text from elsewhere is on disk
ChooseGplFile ==
    /\ pc = "start"
    /\ \/ \E l \in RichLines : lines' = <<l>>
       \/ \E ls \in SeqsUpTo(SampleLines, MaxLines) : lines' = ls
       \/ \E ls \in SeqsUpTo(SampleLines, MaxLines) : lines' = HeaderLines \o ls
    /\ \E finalNewline \in BOOLEAN : text' = RenderFile(lines', finalNewline)
    /\ pc' = "gpl_given"
    /\ UNCHANGED <<colors, name, columns, data, result, text2>>
    /\ UNCHANGED front

\* parse_gpl_file(filename) on the text on disk
ParseGplFile ==
    /\ pc \in {"gpl_written", "gpl_given"}
    /\ result' = Returned(parse_gpl_file(text))
    /\ pc' = IF pc = "gpl_written" THEN "gpl_reparsed" ELSE "gpl_read"
    /\ UNCHANGED <<colors, name, columns, text, data, lines, text2>>
    /\ UNCHANGED front

\* return_gimp_palette(parse_gpl_file(...), name, columns): the second write
RewriteGimpPalette ==
    /\ pc = "gpl_reparsed"
    /\ text2' = return_gimp_palette(result.value, name, columns)
    /\ pc' = "gpl_rewritten"
    /\ UNCHANGED <<colors, name, columns, text, data, lines, result>>
    /\ UNCHANGED front

NextGpl ==
    \/ ChooseGplPalette
    \/ ReturnGimpPalette
    \/ ChooseGplFile
    \/ ParseGplFile
    \/ RewriteGimpPalette

SpecGpl == Init /\ [][NextGpl]_vars

----------------------------------------------------------------------------
(* The front ends: main() of the command-line tool and                     *)
(* PaletteConverterApp._convert_gpl_to_act of the window                   *)

\* GPL files a front end is started on
FrontFiles ==
    { <<>>,
      HeaderLines,
      <<GplLine(PlainWs, <<IntTok(300), IntTok(-10), IntTok(128)>>)>>,
      HeaderLines \o <<GplLine(PlainWs, <<IntTok(40), IntTok(50), IntTok(60)>>)>>,
      HeaderLines \o <<GplLine(LabelWs, <<IntTok(10), IntTok(20), IntTok(30), WordTok(UNTITLED)>>),
                       GplLine(PlainWs, <<WordTok(<<"x">>)>>),
                       GplLine(PlainWs, <<IntTok(40), IntTok(50), IntTok(60)>>)>> }

\* what is at the output path before the run
PriorDisk == {NoFile, FileOf(<<9, 9, 9>>)}

\* how a write can go: well, open() raising, or a write raising after open()
\* has truncated the file
WriteFaults == {"none", "open", "write"}

\* create_act_file(colors, output_path) against the disk: the file it leaves
\* and whether it raised
WriteOutcomes(cs, fault) ==
    IF fault = "none" THEN {[file |-> FileOf(create_act_file(cs)), raised |-> FALSE]}
    ELSE IF fault = "open" THEN {[file |-> disk, raised |-> TRUE]}
    ELSE {[file |-> FileOf(SubSeq(create_act_file(cs), 1, k)), raised |-> TRUE] : k \in {0, 3}}

\* the command line: sys.argv, the input file and the faults of this run
StartMain ==
    /\ pc = "start"
    /\ \E argc \in 1..4, exists \in BOOLEAN, readFails \in BOOLEAN,
          fault \in WriteFaults, d \in PriorDisk, ls \in FrontFiles :
          /\ env' = [frontend |-> "cli", argc |-> argc, hasInput |-> TRUE,
                     exists |-> exists, readFails |-> readFails, hasOutput |-> TRUE,
                     writeFault |-> fault, disk0 |-> d]
          /\ disk' = d
          /\ lines' = ls
          /\ text' = RenderFile(ls, TRUE)
    /\ pc' = "main_args"
    /\ UNCHANGED <<colors, name, columns, data, result, text2, calls, outcome>>

\* if len(sys.argv) != 3: sys.exit(1)
MainCheckArgs ==
    /\ pc = "main_args"
    /\ IF env.argc # 3
       THEN pc' = "main_exit" /\ outcome' = "exit1"
       ELSE pc' = "main_exists" /\ UNCHANGED outcome
    /\ UNCHANGED <<codec, env, disk, calls>>

\* if not os.path.exists(input_file): sys.exit(1)
MainCheckExists ==
    /\ pc = "main_exists"
    /\ IF ~env.exists
       THEN pc' = "main_exit" /\ outcome' = "exit1"
       ELSE pc' = "main_parse" /\ UNCHANGED outcome
    /\ UNCHANGED <<codec, env, disk, calls>>

\* colors = parse_gpl_file(input_file); except Exception: sys.exit(1)
MainParse ==
    /\ pc = "main_parse"
    /\ calls' = Append(calls, "parse_gpl_file")
    /\ IF env.readFails
       THEN /\ result' = Raised
            /\ pc' = "main_exit"
            /\ outcome' = "exit1"
            /\ UNCHANGED colors
       ELSE /\ result' = Returned(parse_gpl_file(text))
            /\ colors' = parse_gpl_file(text)
            /\ pc' = "main_colors"
            /\ UNCHANGED outcome
    /\ UNCHANGED <<name, columns, text, data, lines, text2, env, disk>>

\* (mutant) the empty palette is not checked for
MainCheckColors_NoCheck ==
    /\ pc = "main_colors"
    /\ pc' = "main_write"
    /\ UNCHANGED outcome
    /\ UNCHANGED <<codec, env, disk, calls>>

\* if not colors: sys.exit(1)   (SystemExit is not caught by except Exception)
MainCheckColors ==
    /\ pc = "main_colors"
    /\ IF colors = <<>>
       THEN pc' = "main_exit" /\ outcome' = "exit1"
       ELSE pc' = "main_write" /\ UNCHANGED outcome
    /\ UNCHANGED <<codec, env, disk, calls>>

\* create_act_file(colors, output_file); except Exception: sys.exit(1)
MainWrite ==
    /\ pc = "main_write"
    /\ calls' = Append(calls, "create_act_file")
    /\ \E w \in WriteOutcomes(colors, env.writeFault) :
          /\ disk' = w.file
          /\ outcome' = IF w.raised THEN "exit1" ELSE "exit0"
    /\ pc' = "main_exit"
    /\ UNCHANGED <<codec, env>>

\* the window: the input path typed, the save dialog's answer, the faults
StartGui ==
    /\ pc = "start"
    /\ \E hasInput \in BOOLEAN, exists \in BOOLEAN, readFails \in BOOLEAN,
          hasOutput \in BOOLEAN, fault \in WriteFaults, d \in PriorDisk,
          ls \in FrontFiles :
          /\ env' = [frontend |-> "gui", argc |-> 1, hasInput |-> hasInput,
                     exists |-> exists, readFails |-> readFails, hasOutput |-> hasOutput,
                     writeFault |-> fault, disk0 |-> d]
          /\ disk' = d
          /\ lines' = ls
          /\ text' = RenderFile(ls, TRUE)
    /\ pc' = "gui_input"
    /\ UNCHANGED <<colors, name, columns, data, result, text2, calls, outcome>>

\* if not input_path: return
GuiCheckInput ==
    /\ pc = "gui_input"
    /\ IF ~env.hasInput
       THEN pc' = "gui_return" /\ outcome' = "return"
       ELSE pc' = "gui_parse" /\ UNCHANGED outcome
    /\ UNCHANGED <<codec, env, disk, calls>>

\* colors = parse_gpl_file(input_path); except Exception: showerror
GuiParse ==
    /\ pc = "gui_parse"
    /\ calls' = Append(calls, "parse_gpl_file")
    /\ IF ~env.exists \/ env.readFails
       THEN /\ result' = Raised
            /\ pc' = "gui_return"
            /\ outcome' = "showerror"
            /\ UNCHANGED colors
       ELSE /\ result' = Returned(parse_gpl_file(text))
            /\ colors' = parse_gpl_file(text)
            /\ pc' = "gui_colors"
            /\ UNCHANGED outcome
    /\ UNCHANGED <<name, columns, text, data, lines, text2, env, disk>>

\* if not colors: showerror; return
GuiCheckColors ==
    /\ pc = "gui_colors"
    /\ IF colors = <<>>
       THEN pc' = "gui_return" /\ outcome' = "showerror"
       ELSE pc' = "gui_dialog" /\ UNCHANGED outcome
    /\ UNCHANGED <<codec, env, disk, calls>>

\* output_path = filedialog.asksaveasfilename(...); if output_path: ...
GuiSaveDialog ==
    /\ pc = "gui_dialog"
    /\ IF ~env.hasOutput
       THEN pc' = "gui_return" /\ outcome' = "return"
       ELSE pc' = "gui_write" /\ UNCHANGED outcome
    /\ UNCHANGED <<codec, env, disk, calls>>

\* create_act_file(colors, output_path); showinfo; except Exception: showerror
GuiWrite ==
    /\ pc = "gui_write"
    /\ calls' = Append(calls, "create_act_file")
    /\ \E w \in WriteOutcomes(colors, env.writeFault) :
          /\ disk' = w.file
          /\ outcome' = IF w.raised THEN "showerror" ELSE "showinfo"
    /\ pc' = "gui_return"
    /\ UNCHANGED <<codec, env>>

NextFront ==
    \/ StartMain
    \/ MainCheckArgs
    \/ MainCheckExists
    \/ MainParse
    \/ MainCheckColors
    \/ MainWrite
    \/ StartGui
    \/ GuiCheckInput
    \/ GuiParse
    \/ GuiCheckColors
    \/ GuiSaveDialog
    \/ GuiWrite

SpecFront == Init /\ [][NextFront]_vars

\* every pipeline and front end together
Next == NextAct \/ NextGpl \/ NextFront

Spec == Init /\ [][Next]_vars

----------------------------------------------------------------------------
(* Properties of the ACT writer and reader *)

ActWritten == pc \in {"act_written", "act_roundtrip"}
ActParsed == pc \in {"act_read", "act_roundtrip"}

\* slot i (0-based) of an ACT file
Slot(bytes, i) == <<bytes[3 * i + 1], bytes[3 * i + 2], bytes[3 * i + 3]>>

\* the count the reader is to honour: the field at offset 768 of a 772-byte
\* file, most significant byte first; otherwise the file size div 3
DeclaredCount(bytes) ==
    IF Len(bytes) = 772 THEN bytes[769] * 256 + bytes[770] ELSE Len(bytes) \div 3

\* C1: for a palette of 1..255 colours, reading the ACT file written for it
\* returns exactly that palette, padding excluded
C1_ActRoundTrip ==
    (pc = "act_roundtrip" /\ Len(colors) >= 1 /\ Len(colors) <= 255)
        => result = Returned(colors)

\* C4: the written file has 768 bytes for 0 or >= 256 colours and 770 bytes
\* for 1..255 colours, the last two bytes then being the count, big-endian
C4_ActSizeAndCount ==
    ActWritten =>
        LET n == Len(colors)
        IN  /\ (n = 0 \/ n >= 256) => Len(data) = 768
            /\ (n >= 1 /\ n <= 255) =>
                  /\ Len(data) = 770
                  /\ data[769] = n \div 256
                  /\ data[770] = n % 256

C4_Witness ==
    /\ pc = "act_written"
    /\ Len(colors) = 255
    /\ Len(data) = 770
    /\ data[769] = 0
    /\ data[770] = 255

\* C5: the first 768 bytes are 256 slots; slot i holds input colour i for
\* i < min(n, 256) and black beyond; colours from index 256 on are dropped
C5_ActSlotTable ==
    ActWritten =>
        LET n == Len(colors)
            kept == IF n < 256 THEN n ELSE 256
        IN  /\ Len(data) >= 768
            /\ \A i \in 0..255 :
                  Slot(data, i) = IF i < kept THEN colors[i + 1] ELSE <<0, 0, 0>>

C5_Witness ==
    /\ pc = "act_written"
    /\ Len(colors) = 300
    /\ colors[1] # colors[2]
    /\ Slot(data, 0) = colors[1]
    /\ Slot(data, 255) = colors[256]

\* C6: when the reader returns, it returns as many colours as the count
\* field of a 772-byte file says, file_size div 3 colours for any other
\* size, and colour i is the bytes at offsets 3i, 3i+1, 3i+2
C6_ActReaderCount ==
    (ActParsed /\ result.status = "ok") =>
        /\ Len(result.value) = DeclaredCount(data)
        /\ \A i \in 0..(Len(result.value) - 1) :
              result.value[i + 1] = Slot(data, i)

C6_Witness ==
    /\ pc = "act_read"
    /\ Len(data) = 772
    /\ data[769] = 0
    /\ data[770] = 10
    /\ result.status = "ok"
    /\ Len(result.value) = 10

\* C7: the reader raises exactly when the count needs more bytes than the
\* file holds, which only the count field of a 772-byte file can cause
C7_ActReaderTruncated ==
    ActParsed =>
        LET need == 3 * DeclaredCount(data)
        IN  /\ need > Len(data) => (result = Raised /\ Len(data) = 772)
            /\ need <= Len(data) => result.status = "ok"

C7_Witness ==
    /\ pc = "act_read"
    /\ 3 * DeclaredCount(data) > Len(data)
    /\ result.status = "error"

----------------------------------------------------------------------------
(* Properties of the GPL writer and reader *)

\* a token made only of digit characters: an unsigned integer, or the
\* superscript digit that int() rejects
TokDigitOnly(t) == (t.isint /\ t.value >= 0) \/ t.chars = <<SUP2>>

LineBlank(l) == l.toks = <<>>
LineComment(l) == l.toks # <<>> /\ Head(l.toks[1].chars) = "#"

\* the colour a given line is to yield, if any: a non-blank, non-comment
\* line with at least three digit-only tokens whose conversion does not
\* raise yields its first three such tokens, each at most 255
ExpectedOfLine(l) ==
    LET nums == SelectSeq(l.toks, TokDigitOnly)
        upTo255(v) == IF v > 255 THEN 255 ELSE v
    IN  IF LineBlank(l) \/ LineComment(l) THEN <<>>
        ELSE IF Len(nums) < 3 THEN <<>>
        ELSE IF \E i \in 1..Len(nums) : ~nums[i].isint THEN <<>>
        ELSE << <<upTo255(nums[1].value), upTo255(nums[2].value), upTo255(nums[3].value)>> >>

RECURSIVE ExpectedOfLines(_)
ExpectedOfLines(ls) ==
    IF ls = <<>> THEN <<>>
    ELSE ExpectedOfLine(Head(ls)) \o ExpectedOfLines(Tail(ls))

\* a single data line carrying exactly three integers (signed or not) and
\* otherwise only words
ThreeIntegerLine ==
    /\ Len(lines) = 1
    /\ ~LineComment(lines[1])
    /\ Len(SelectSeq(lines[1].toks, LAMBDA t : t.isint)) = 3
    /\ \A i \in 1..Len(lines[1].toks) : lines[1].toks[i].chars # <<SUP2>>

IntsOfLine(l) == SelectSeq(l.toks, LAMBDA t : t.isint)

\* C2: writing, reading back and writing again gives the first text,
\* byte for byte, for every palette, name and column hint
C2_GplIdempotent ==
    pc = "gpl_rewritten" => text2 = text

\* C3 as stated: a line carrying three integers, above 255 or negative,
\* parses to one colour, the integers clamped into [0,255]
C3_ClampAsStated ==
    (pc = "gpl_read" /\ ThreeIntegerLine) =>
        LET ints == IntsOfLine(lines[1])
            clamped(v) == IF v > 255 THEN 255 ELSE IF v < 0 THEN 0 ELSE v
        IN  result.value = << <<clamped(ints[1].value), clamped(ints[2].value),
                                clamped(ints[3].value)>> >>

\* C3 amended: a line carrying three integers parses to one colour, each
\* channel the integer capped at 255, when all three are unsigned; a signed
\* integer is not a digit-only token, and the line then yields no colour
C3_ClampUnsigned ==
    (pc = "gpl_read" /\ ThreeIntegerLine) =>
        LET ints == IntsOfLine(lines[1])
            capped(v) == IF v > 255 THEN 255 ELSE v
        IN  IF \A i \in 1..3 : ints[i].value >= 0
            THEN result.value = << <<capped(ints[1].value), capped(ints[2].value),
                                     capped(ints[3].value)>> >>
            ELSE result.value = <<>>

C3_Witness ==
    /\ pc = "gpl_read"
    /\ ThreeIntegerLine
    /\ IntsOfLine(lines[1])[1].value = 300
    /\ IntsOfLine(lines[1])[2].value = 0
    /\ IntsOfLine(lines[1])[3].value = 255
    /\ result.value = << <<255, 0, 255>> >>

GplHeader(nm, cols) ==
    GIMP_PALETTE \o NL \o NAME_LABEL \o nm \o NL
        \o COLUMNS_LABEL \o IntToStr(cols) \o NL \o <<"#">> \o NL

RECURSIVE GplColorLines(_)
GplColorLines(cs) ==
    IF cs = <<>> THEN <<>>
    ELSE IntToStr(cs[1][1]) \o <<" ">> \o IntToStr(cs[1][2]) \o <<" ">> \o IntToStr(cs[1][3])
            \o <<"\t">> \o UNTITLED \o NL \o GplColorLines(Tail(cs))

GplWritten == pc \in {"gpl_written", "gpl_reparsed", "gpl_rewritten"}

\* C10 as stated: the text is the four header lines followed by exactly |P|
\* colour lines and nothing else, for every palette, the empty one included
C10_GplWriterAsStated ==
    GplWritten => text = GplHeader(name, columns) \o GplColorLines(colors)

\* C10 amended: that holds for every non-empty palette; for the empty
\* palette the header is followed by one empty line (a lone newline)
C10_GplWriter ==
    GplWritten =>
        text = GplHeader(name, columns)
                  \o (IF colors = <<>> THEN NL ELSE GplColorLines(colors))

C10_Witness ==
    /\ pc = "gpl_written"
    /\ Len(colors) = 2
    /\ colors[1] # colors[2]
    /\ text = GplHeader(name, columns) \o GplColorLines(colors)

----------------------------------------------------------------------------
(* Properties of the front ends *)

\* the palette the input file of this run holds
InputPalette == ExpectedOfLines(lines)

\* what makes a run of main() fail
MainFails ==
    \/ env.argc # 3
    \/ ~env.exists
    \/ env.readFails
    \/ InputPalette = <<>>
    \/ env.writeFault # "none"

\* C9: main() exits 1 on a wrong argument count, a missing input, an empty
\* palette or a raised exception, and 0 otherwise; in both front ends
\* create_act_file is called only after parse_gpl_file returned a non-empty
\* palette, so a missing input or an empty palette leaves the output file
\* as it was
C9_FrontEnds ==
    /\ pc = "main_exit" => outcome = IF MainFails THEN "exit1" ELSE "exit0"
    /\ \A i \in 1..Len(calls) :
          calls[i] = "create_act_file" =>
              /\ i > 1
              /\ calls[i - 1] = "parse_gpl_file"
              /\ result.status = "ok"
              /\ result.value # <<>>
              /\ colors = result.value
    /\ (env.frontend # "none" /\ (~env.exists \/ InputPalette = <<>>)) =>
          disk = env.disk0

C9_Witness ==
    /\ pc = "main_exit"
    /\ env.argc = 3
    /\ env.exists
    /\ ~env.readFails
    /\ env.writeFault = "none"
    /\ lines = HeaderLines
    /\ result = Returned(<<>>)
    /\ calls = <<"parse_gpl_file">>
    /\ outcome = "exit1"
    /\ disk = env.disk0

====
